---- MODULE Spec2Model ----
(***************************************************************************)
(* bookzify.api: the browser-driven search and ingest handlers of          *)
(* src/index.js (GET /books/search, POST /books/download) together with    *)
(* the storage/database helpers they call (checkBookExists,                *)
(* uploadToSupabaseStorage).                                               *)
(*                                                                         *)
(* Every request is a process that moves from one await of its handler to  *)
(* the next; one action is the code between two awaits, with the outcome   *)
(* of the awaited call (browser, file system, storage, database) chosen by *)
(* the environment.  Synchronous catch blocks are part of the action that  *)
(* throws.                                                                 *)
(***************************************************************************)
EXTENDS Integers, Sequences, FiniteSets, TLC

(***************************************************************************)
(* Program constants.                                                      *)
(***************************************************************************)
maxRetries      == 3
maxWaitTime     == 120000
downloadTimeout == 90000
pollInterval    == 2000

(***************************************************************************)
(* Bounds of the model.                                                    *)
(***************************************************************************)
\* Time is kept on a grid: one grid step stands for PollsPerTick consecutive
\* two-second waits of the control-polling loop.
PollsPerTick == 15
Tick         == pollInterval * PollsPerTick
\* Elapsed times beyond the deadline are all alike to the handler (its only
\* test is elapsed > maxWaitTime): they are kept as TimeCap.
TimeCap      == maxWaitTime + Tick
Min(a, b)    == IF a < b THEN a ELSE b
Later(t, d)  == Min(t + d, TimeCap)
\* Date.now() at a download event, as far as file names go: two attempts
\* read the same millisecond or different ones.
Stamps       == {0, 1}

Ingests  == {"i1", "i2"}
Urls     == {"u1", "u2"}
\* A request body whose url is missing or does not start with 'http'.
BadUrl   == "bad"
\* stat().size of a saved download: 0 (empty) or 1 (standing for any size > 0).
FileSizes == {0, 1}

Searches == {"s1"}
Admins   == {"a1", "a2"}
\* The longest list of result entries a search page holds.
MaxListings == 2
\* Largest number sent as the page or limit parameter of a search.
MaxParam == 2
\* What the detail page of one extracted listing has to offer: a download
\* link, no matching link, or a page that fails to load.
ListingKinds == {"link", "nolink", "fail"}
Listings == UNION {[1..n -> ListingKinds] : n \in 0..MaxListings}

\* On a search page with more than MaxListings listings, the number of
\* calls of the resolve loop that may throw.
MaxFaults == 1

NULL == <<>>

VARIABLES
    clientMode,  \* which `supabase` object the process runs with: "rest" | "pg"
    db,          \* rows of table books
    storage,     \* object paths in bucket books
    files,       \* the download directory: path -> [size, by]
    ing,         \* per ingest request: the locals of the handler
    srch,        \* per search request: the locals of the handler
    clients,     \* the requests that arrive in this run
    adm          \* per admin cleanup request: the locals of the handler

vars == <<clientMode, db, storage, files, ing, srch, clients, adm>>

(***************************************************************************)
(* Errors.  An error is known to the handler by its name and by the        *)
(* substrings its message is tested for; Words(e) is the set of tested     *)
(* substrings that e.message includes.                                     *)
(***************************************************************************)
\* Playwright's TimeoutError of page.waitForEvent: name 'TimeoutError',
\* message 'Timeout 90000ms exceeded while waiting for event "download"'
\* (capital T: String.includes is case-sensitive).
ErrName(e) == IF e = "PwTimeout" THEN "TimeoutError" ELSE "Error"

Words(e) ==
    CASE e = "PwTimeout"     -> {}
      [] e = "BackupTimeout" -> {"timeout", "Download backup timeout"}
      [] e = "RaceTimeout"   -> {"timeout", "no download detected"}
      [] e = "MaxWait"       -> {"Maximum wait time exceeded"}
      [] e = "EmptyFile"     -> {}
      [] e = "NotCreated"    -> {}
      [] e = "AllAttempts"   -> {}
      [] e = "MaxRetries"    -> {}
      [] e = "Generic"       -> {}
      [] e = "Launch"        -> {}
      [] e = "Navigation"    -> {}
      [] e = "TimeoutMsg"    -> {"timeout"}

\* The timers of one download wait that are armed before the click and
\* expire after the same 90 s: page.waitForEvent's own timeout and the
\* backup promise's setTimeout.  Which callback rejects first is decided by
\* the runtime.  (The third racer's timer is armed only after the click
\* returned, so it is never the first to expire.)
DownloadTimers == {"PwTimeout", "BackupTimeout"}

\* Errors the storage and database collaborator can answer with: an error
\* object whose message may or may not contain the word 'timeout'.
CollabErrors == {"Generic", "TimeoutMsg"}

\* downloadError classification of the inner catch.
InnerRetryable(e) ==
    \/ "timeout" \in Words(e)
    \/ "Download backup timeout" \in Words(e)
    \/ "no download detected" \in Words(e)

\* error classification of the attempt's catch.
OuterRetryable(e) ==
    \/ ErrName(e) = "TimeoutError"
    \/ "timeout" \in Words(e)
    \/ "Maximum wait time exceeded" \in Words(e)
    \/ "no download detected" \in Words(e)
    \/ "Download backup timeout" \in Words(e)

(***************************************************************************)
(* Storage / database collaborator.                                        *)
(***************************************************************************)
RowsFor(u) == {b \in db : b.download_url = u}

\* A lookup that never matches (a query on the wrong column).
SingleNever(u) == {}

\* .eq('download_url', u).single(): PostgREST answers error PGRST116 unless
\* exactly one row matches; the direct PostgreSQL client runs LIMIT 1.
\* The result is the set of rows `data` may be (empty: data is null).
Single(u) ==
    IF clientMode = "rest"
    THEN IF Cardinality(RowsFor(u)) = 1 THEN RowsFor(u) ELSE {}
    ELSE RowsFor(u)

\* Response bodies.
Resp(status, success, id, s3url, error) ==
    [status |-> status, success |-> success, id |-> id,
     s3_bucket_url |-> s3url, error |-> error, message |-> "none"]

\* The body of the inner catch's response: message is error.message.
Failed(e) ==
    [Resp(500, FALSE, NULL, NULL, "Download failed") EXCEPT !.message = e]

AdmInit == [pc |-> "idle", bookId |-> NULL, book |-> NULL, sent |-> <<>>]

IngInit ==
    [pc |-> "idle", url |-> "none",
     browser |-> "none", launches |-> 0, closes |-> 0,
     pageOpen |-> FALSE,
     retryCount |-> 0, elapsed |-> 0,
     downloadInitiated |-> FALSE,
     tempFilePath |-> NULL, armed |-> FALSE,
     button |-> "none", clicked |-> "none",
     statSize |-> -1,
     uploadPath |-> NULL,
     error |-> "none",
     sent |-> <<>>,
     \* What the request has done so far (kept for the properties).
     existingBook |-> NULL, dedupError |-> FALSE, mkdirs |-> 0,
     unlinkFailed |-> FALSE, clickedUnarmed |-> FALSE,
     ownPageClosed |-> FALSE,
     uploadLog |-> {}, insertLog |-> {},
     doneBefore |-> {}]

(***************************************************************************)
(* JavaScript numbers as far as the search handler computes with them: an  *)
(* integer, NaN or Infinity.                                               *)
(***************************************************************************)
Num(v)   == [k |-> "num", v |-> v]
NaN      == [k |-> "NaN", v |-> 0]
Infinity == [k |-> "Infinity", v |-> 0]

Max(a, b) == IF a > b THEN a ELSE b

\* req.query.page and req.query.limit as the client sends them: absent (or
\* empty), text without leading digits, or the digits of an integer.
QueryParams ==
    {[k |-> "absent", v |-> 0], [k |-> "text", v |-> 0]}
        \cup {[k |-> "digits", v |-> i] : i \in -1..MaxParam}

\* parseInt(raw || dflt, 10)
parseInt(raw, dflt) ==
    CASE raw.k = "absent" -> Num(dflt)
      [] raw.k = "text"   -> NaN
      [] raw.k = "digits" -> Num(raw.v)

SrchInit ==
    [pc |-> "idle", query |-> "", source |-> "none",
     page |-> Num(1), limit |-> Num(10), gathered |-> <<>>,
     browser |-> "none", launches |-> 0, closes |-> 0,
     bookMetadata |-> <<>>, idx |-> 0, downloadUrl |-> "",
     openPages |-> 0, allBooks |-> <<>>, sent |-> <<>>,
     \* What the request has done so far (kept for the properties).
     extracted |-> 0, unresolved |-> {}, scrapeFailed |-> FALSE,
     closeFailed |-> FALSE, dom |-> <<>>, processed |-> 0, skipped |-> {},
     faults |-> 0]

\* The two handlers share no state (a search touches neither the database,
\* the bucket nor the download directory, and every request has a browser
\* of its own), so a run holds ingest requests or search requests, and the
\* runs of search requests start from one database.
Init ==
    /\ clientMode \in {"rest", "pg"}
    /\ db \in {{}, {[id |-> <<"seed", 0>>, download_url |-> "u1",
                     s3_bucket_id |-> <<"seed", 0>>]}}
    /\ storage = {b.s3_bucket_id : b \in db}
    /\ files = <<>>
    /\ ing = [r \in Ingests |-> IngInit]
    /\ srch = [r \in Searches |-> SrchInit]
    /\ adm = [a \in Admins |-> AdmInit]
    /\ clients \in {Ingests, Searches}
    /\ clients = Searches => clientMode = "rest" /\ db = {}

(***************************************************************************)
(* POST /books/download: the synchronous parts of the handler.             *)
(***************************************************************************)
Send(q, resp) == [q EXCEPT !.sent = Append(@, resp)]

\* Control leaves the try block that declares page, retryCount, startTime
\* and downloadInitiated: only browser and tempFilePath stay in scope.
LeaveTry(q) ==
    [q EXCEPT !.pc = "cleanup", !.pageOpen = FALSE, !.retryCount = 0,
              !.armed = FALSE,
              !.elapsed = 0, !.downloadInitiated = FALSE,
              !.statSize = -1,
              !.uploadPath = NULL, !.error = "none"]

\* The handler returns: its locals are gone, what it did remains.
Finish(q) ==
    [LeaveTry(q) EXCEPT !.pc = "done", !.tempFilePath = NULL]

\* A catch that answers and returns with no finally block behind it.
HandlerCatchNoFinally(q, e) ==
    Finish(Send(q, Failed(e)))

\* catch (error) of the handler's inner try: respond 500, then the finally.
HandlerCatch(q, e) ==
    LeaveTry(Send(q, Failed(e)))

\* After the retry loop: if (!downloadInitiated) throw.
AfterLoop(q) ==
    IF ~q.downloadInitiated
    THEN HandlerCatch(q, "AllAttempts")
    ELSE LeaveTry(q)

\* A retry loop that does not count its attempts.
LoopHeadUncounted(q) ==
    IF ~q.downloadInitiated THEN [q EXCEPT !.pc = "poll"] ELSE AfterLoop(q)

\* while (!downloadInitiated && retryCount < maxRetries) { retryCount++; ...
LoopHead(q) ==
    IF ~q.downloadInitiated /\ q.retryCount < maxRetries
    THEN [q EXCEPT !.retryCount = @ + 1, !.pc = "poll", !.armed = FALSE]
    ELSE AfterLoop(q)

\* catch (error) of one attempt.
OuterCatch(q, e) ==
    IF OuterRetryable(e)
    THEN IF q.retryCount >= maxRetries
         THEN HandlerCatch(q, "MaxRetries")
         ELSE [q EXCEPT !.pc = "reload", !.error = e, !.armed = FALSE]
    ELSE HandlerCatch(q, e)

\* A catch that hands every error on to the attempt's catch.
InnerCatchRethrows(q, e) == OuterCatch(q, e)

\* catch (downloadError) around click, download wait, save, verify, upload:
\* `break` leaves the enclosing loop, which is the retry loop (the polling
\* loop has ended by then).
InnerCatch(q, e) ==
    IF InnerRetryable(e) THEN AfterLoop(q) ELSE OuterCatch(q, e)

\* The download directory after fs.promises.unlink(p) (ok: it succeeded).
Unlink(p, ok) ==
    IF ok /\ p \in DOMAIN files
    THEN [x \in DOMAIN files \ {p} |-> files[x]]
    ELSE files

\* if (tempFilePath && fs.existsSync(tempFilePath)) unlink, errors swallowed.
CleanPartial(q, ok) ==
    IF q.tempFilePath # NULL THEN Unlink(q.tempFilePath, ok) ELSE files

\* The request remembers an unlink of its file that threw.
Tried(q, ok) ==
    [q EXCEPT !.unlinkFailed = @ \/ (~ok /\ q.tempFilePath \in DOMAIN files)]

\* An error thrown inside the inner try of attempt q.retryCount.
ThrowInner(r, q, e) ==
    \E ok \in BOOLEAN :
        /\ files' = CleanPartial(q, ok)
        /\ ing' = [ing EXCEPT ![r] = InnerCatch(Tried(q, ok), e)]

\* A finally block that leaves the temporary file to the inner catch.
NoFinallyCleanup(q, ok) == files

\* finally: if (tempFilePath && fs.existsSync(tempFilePath)) unlink
FinallyCleanup(q, ok) == CleanPartial(q, ok)

(***************************************************************************)
(* POST /books/download: one action per await.                             *)
(***************************************************************************)
IngestStart(r, u) ==
    /\ r \in clients
    /\ ing[r].pc = "idle"
    /\ LET q == [ing[r] EXCEPT !.url = u,
                    !.doneBefore = {o \in Ingests : ing[o].pc = "done"}]
       IN ing' = [ing EXCEPT ![r] =
                    IF u = BadUrl
                    THEN Finish(Send(q, Resp(400, FALSE, NULL, NULL, "Invalid URL")))
                    ELSE [q EXCEPT !.pc = "dedup"]]
    /\ UNCHANGED <<clientMode, db, storage, files, srch, clients, adm>>

\* catch (error) of the handler's outer try: 500 'Fatal error'.
FatalCatch(q) ==
    Finish(Send(q, Resp(500, FALSE, NULL, NULL, "Fatal error")))

\* checkBookExists answering null where it should rethrow.
DedupFailsAsMiss(q) == [q EXCEPT !.pc = "mkdir"]

\* checkBookExists rethrows the query's error, which no inner try encloses.
DedupFails(q) == FatalCatch(q)

\* The response without the `return` in front of it.
DedupHitNoReturn(q, b) ==
    [Send([q EXCEPT !.existingBook = b],
          Resp(200, TRUE, b.id, b.s3_bucket_id, "none")) EXCEPT !.pc = "mkdir"]

\* if (existingBook) return res.status(200).json({success: true, id, ...})
DedupHit(q, b) ==
    Finish(Send([q EXCEPT !.existingBook = b],
                Resp(200, TRUE, b.id, b.s3_bucket_id, "none")))

\* const existingBook = await checkBookExists(url)
DedupQuery(r) ==
    /\ ing[r].pc = "dedup"
    /\ LET q == ing[r] IN
       \/ \* the query fails: checkBookExists throws, the outermost catch answers
          ing' = [ing EXCEPT ![r] = DedupFails([q EXCEPT !.dedupError = TRUE])]
       \/ \E b \in Single(q.url) :
            ing' = [ing EXCEPT ![r] = DedupHit(q, b)]
       \/ /\ Single(q.url) = {}
          /\ ing' = [ing EXCEPT ![r].pc = "mkdir"]
    /\ UNCHANGED <<clientMode, db, storage, files, srch, clients, adm>>

\* await fs.promises.mkdir(downloadPath, { recursive: true })
Mkdir(r) ==
    /\ ing[r].pc = "mkdir"
    /\ LET q == [ing[r] EXCEPT !.mkdirs = @ + 1] IN
       \/ ing' = [ing EXCEPT ![r] = [q EXCEPT !.pc = "launch"]]
       \/ ing' = [ing EXCEPT ![r] = HandlerCatch(q, "Generic")]
    /\ UNCHANGED <<clientMode, db, storage, files, srch, clients, adm>>

\* What page.goto(url) before the retry loop may throw: its TimeoutError
\* after 60 s, or the navigation's own error (net::ERR_...).
NavigationErrors == {"PwTimeout", "Navigation"}

\* A failed first navigation handed to the attempt's catch.
NavigationRetried(q, e) == OuterCatch(q, e)

\* chromium.launch and the first page.goto are inside the handler's try and
\* outside the retry loop: their errors reach catch (error) directly.
TerminalBrowserError(q, e) == HandlerCatch(q, e)

\* browser = await chromium.launch(...)
Launch(r) ==
    /\ ing[r].pc = "launch"
    /\ \/ ing' = [ing EXCEPT ![r].pc = "setup", ![r].browser = "open",
                             ![r].launches = @ + 1]
       \/ ing' = [ing EXCEPT ![r] = TerminalBrowserError(ing[r], "Launch")]
    /\ UNCHANGED <<clientMode, db, storage, files, srch, clients, adm>>

\* newContext, newPage, context.on('page'), page.route, page.addInitScript
Setup(r) ==
    /\ ing[r].pc = "setup"
    /\ \/ ing' = [ing EXCEPT ![r].pc = "goto", ![r].pageOpen = TRUE]
       \/ ing' = [ing EXCEPT ![r] = HandlerCatch(ing[r], "Generic")]
    /\ UNCHANGED <<clientMode, db, storage, files, srch, clients, adm>>

\* await page.goto(url); const startTime = Date.now(); first loop test
Goto(r) ==
    /\ ing[r].pc = "goto"
    /\ \/ ing' = [ing EXCEPT ![r] = LoopHead([ing[r] EXCEPT !.elapsed = 0])]
       \/ \E e \in NavigationErrors :
            ing' = [ing EXCEPT ![r] = TerminalBrowserError(ing[r], e)]
    /\ UNCHANGED <<clientMode, db, storage, files, srch, clients, adm>>

\* What one poll sees of the trigger control.
ControlStates ==
    [exists : BOOLEAN, visible : BOOLEAN, enabled : BOOLEAN, inToLock : BOOLEAN]

Ready(c) == c.exists /\ c.visible /\ c.enabled /\ c.inToLock

\* currentTime - startTime > maxWaitTime
DeadlineExceeded(q) == q.elapsed > maxWaitTime

\* One iteration of while (!buttonFound).
Poll(r) ==
    /\ ing[r].pc = "poll"
    /\ LET q == ing[r] IN
       IF DeadlineExceeded(q)
       THEN ing' = [ing EXCEPT ![r] = OuterCatch(q, "MaxWait")]
       ELSE IF ~q.pageOpen
       THEN \* button.count() on a closed page throws
            ing' = [ing EXCEPT ![r] = OuterCatch(q, "Generic")]
       ELSE \E c, o \in ControlStates :
              IF Ready(c)
              THEN ing' = [ing EXCEPT ![r].pc = "click",
                                      ![r].button = "btn_download"]
              ELSE IF Ready(o)
              THEN ing' = [ing EXCEPT ![r].pc = "click",
                                      ![r].button = "other"]
              ELSE \* await page.waitForTimeout(2000)
                   ing' = [ing EXCEPT ![r].elapsed = Later(@, Tick)]
    /\ UNCHANGED <<clientMode, db, storage, files, srch, clients, adm>>

\* Listeners that are set up only after the click.
ArmListenersLate(q) == q

\* const downloadPromise = page.waitForEvent('download', ...); the backup
\* promise's page.on('download', ...): both run before the first click.
ArmListeners(q) == [q EXCEPT !.armed = TRUE]

\* button.click(...): the request remembers a click without a listener.
Pressed(q) == [q EXCEPT !.clickedUnarmed = @ \/ ~q.armed]

\* What the JavaScript fallback clicks: document.querySelector(
\* downloadButtonSelector), in the state c it is in by then, whichever
\* control `button` names; nothing if no element matches.
EvaluateClick(q, c) ==
    IF ~c.exists THEN "none"
    ELSE IF q.button = "btn_download" THEN "button" ELSE "unchecked"

\* Arm the listeners, click (force click, plain click, JavaScript click).
\* clicked: the control `button` names, or one no poll found ready.
Click(r) ==
    /\ ing[r].pc = "click"
    /\ LET q == [Pressed(ArmListeners(ing[r])) EXCEPT !.button = "none"] IN
       \/ \* button.click(...) goes through, forced or plain
          /\ ing' = [ing EXCEPT ![r] =
                       [q EXCEPT !.pc = "awaitDownload", !.clicked = "button"]]
          /\ UNCHANGED files
       \/ \* both throw, page.evaluate runs the click in the page
          /\ \E c \in ControlStates :
                ing' = [ing EXCEPT ![r] =
                          [q EXCEPT !.pc = "awaitDownload",
                                    !.clicked = EvaluateClick(ing[r], c)]]
          /\ UNCHANGED files
       \/ \* all three click methods throw
          ThrowInner(r, q, "Generic")
    /\ UNCHANGED <<clientMode, db, storage, srch, clients, adm>>

\* await Promise.race([downloadPromise, downloadBackupPromise, timer])
AwaitDownload(r) ==
    /\ ing[r].pc = "awaitDownload"
    /\ \/ \* the download event arrives: tempFilePath = temp_<Date.now()>_<name>
          /\ \E t \in Stamps :
                ing' = [ing EXCEPT ![r].pc = "save", ![r].clicked = "none",
                                   ![r].tempFilePath = <<t, ing[r].url>>]
          /\ UNCHANGED files
       \/ \E t \in DownloadTimers :
            ThrowInner(r, [ing[r] EXCEPT !.elapsed = Later(@, downloadTimeout),
                                         !.clicked = "none"], t)
    /\ UNCHANGED <<clientMode, db, storage, srch, clients, adm>>

\* await download.saveAs(tempFilePath)
Save(r) ==
    /\ ing[r].pc = "save"
    /\ LET q == ing[r] IN
       \/ \E s \in FileSizes :
            /\ files' = [x \in DOMAIN files \cup {q.tempFilePath} |->
                           IF x = q.tempFilePath THEN [size |-> s, by |-> r]
                           ELSE files[x]]
            /\ ing' = [ing EXCEPT ![r].pc = "stat"]
       \/ ThrowInner(r, q, "Generic")
    /\ UNCHANGED <<clientMode, db, storage, srch, clients, adm>>

\* The size test written with >= for >.
AnySize(size) == size >= 0

\* if (fileStats.size > 0)
NonEmpty(size) == size > 0

\* existsSync, stat, and the empty-file branch
Stat(r) ==
    /\ ing[r].pc = "stat"
    /\ LET p == ing[r].tempFilePath
           q == [ing[r] EXCEPT !.statSize =
                    IF p \in DOMAIN files THEN files[p].size ELSE -1] IN
       IF p \notin DOMAIN files
       THEN ThrowInner(r, q, "NotCreated")
       ELSE IF NonEmpty(q.statSize)
       THEN /\ ing' = [ing EXCEPT ![r] = [q EXCEPT !.pc = "upload"]]
            /\ UNCHANGED files
       ELSE \* await fs.promises.unlink(tempFilePath); throw 'Downloaded file is empty'
            \/ /\ files' = Unlink(p, TRUE)
               /\ ing' = [ing EXCEPT ![r] = InnerCatch(q, "EmptyFile")]
            \/ \* the unlink itself throws
               ThrowInner(r, [q EXCEPT !.unlinkFailed = TRUE], "Generic")
    /\ UNCHANGED <<clientMode, db, storage, srch, clients, adm>>

\* uploadToSupabaseStorage: readFile, storage.upload
Upload(r) ==
    /\ ing[r].pc = "upload"
    /\ LET q == ing[r]
           p == q.tempFilePath
           obj == <<r, Cardinality(q.uploadLog)>> IN
       \/ /\ p \notin DOMAIN files
          /\ ThrowInner(r, q, "Generic")
          /\ UNCHANGED storage
       \/ /\ p \in DOMAIN files
          /\ clientMode = "rest"
          /\ storage' = storage \cup {obj}
          /\ ing' = [ing EXCEPT ![r].pc = "insert", ![r].uploadPath = obj,
                        ![r].uploadLog = @ \cup
                            {[path |-> obj, size |-> files[p].size,
                              by |-> files[p].by, attempt |-> q.retryCount]}]
          /\ UNCHANGED files
       \/ /\ p \in DOMAIN files
          /\ \E e \in CollabErrors : ThrowInner(r, q, e)
          /\ UNCHANGED storage
    /\ UNCHANGED <<clientMode, db, srch, clients, adm>>

\* uploadToSupabaseStorage: insert([bookRecord]).select().single()
Insert(r) ==
    /\ ing[r].pc = "insert"
    /\ LET q == ing[r]
           rec == [id |-> <<r, Cardinality(q.insertLog)>>, download_url |-> q.url,
                   s3_bucket_id |-> q.uploadPath] IN
       \/ /\ db' = db \cup {rec}
          /\ ing' = [ing EXCEPT ![r] =
                LeaveTry(Send([q EXCEPT !.downloadInitiated = TRUE,
                                        !.insertLog = @ \cup
                                            {[id |-> rec.id,
                                              attempt |-> q.retryCount]}],
                              Resp(200, TRUE, rec.id, rec.s3_bucket_id, "none")))]
       \/ /\ \E e \in CollabErrors :
                ing' = [ing EXCEPT ![r].pc = "compensate", ![r].error = e]
          /\ UNCHANGED db
    /\ UNCHANGED <<clientMode, storage, files, srch, clients, adm>>

\* A removal whose own error is thrown in place of insertError.
CleanupErrorThrown(insertError, removed) ==
    IF removed THEN insertError ELSE "Generic"

\* try { remove } catch (cleanupError) { log }; throw insertError
ThrownAfterRemoval(insertError, removed) == insertError

\* insertError: storage.remove([uploadData.path]) (errors swallowed), rethrow
Compensate(r) ==
    /\ ing[r].pc = "compensate"
    /\ \E removed \in BOOLEAN :
         /\ storage' = IF removed THEN storage \ {ing[r].uploadPath} ELSE storage
         /\ ThrowInner(r, ing[r], ThrownAfterRemoval(ing[r].error, removed))
    /\ UNCHANGED <<clientMode, db, srch, clients, adm>>

\* await page.reload(...); await page.waitForTimeout(3000)
Reload(r) ==
    /\ ing[r].pc = "reload"
    /\ \/ ing' = [ing EXCEPT ![r] =
                    LoopHead([ing[r] EXCEPT !.elapsed = Later(@, Tick),
                                            !.error = "none"])]
       \/ ing' = [ing EXCEPT ![r].pc = "newPage"]
    /\ UNCHANGED <<clientMode, db, storage, files, srch, clients, adm>>

\* context.on('page', newPage => newPage.close()), registered after the
\* first page was created: it is called with every page the context
\* creates from then on, the pipeline's replacement page included, and
\* closes it.
PopupHandler(q) == [q EXCEPT !.ownPageClosed = TRUE]

\* reloadError: page.close(); newPage = context.newPage(); newPage.goto(url).
\* The variable `page` keeps naming the closed page.
NewPage(r) ==
    /\ ing[r].pc = "newPage"
    /\ LET q == [ing[r] EXCEPT !.pageOpen = FALSE] IN
       \/ \* all three calls return
          ing' = [ing EXCEPT ![r] =
                    LoopHead([PopupHandler(q) EXCEPT !.error = "none"])]
       \/ \* page.close() or context.newPage() throws
          ing' = [ing EXCEPT ![r] = HandlerCatch(q, q.error)]
       \/ \* newPage.goto(url) throws
          ing' = [ing EXCEPT ![r] = HandlerCatch(PopupHandler(q), q.error)]
    /\ UNCHANGED <<clientMode, db, storage, files, srch, clients, adm>>

\* finally: remove the temporary file (errors swallowed)
CleanupTemp(r) ==
    /\ ing[r].pc = "cleanup"
    /\ \E ok \in BOOLEAN :
         /\ files' = FinallyCleanup(ing[r], ok)
         /\ ing' = [ing EXCEPT ![r] = [Tried(ing[r], ok) EXCEPT !.pc = "close"]]
    /\ UNCHANGED <<clientMode, db, storage, srch, clients, adm>>

\* finally: if (browser) await browser.close(); a throw reaches the
\* outermost catch, which answers 500 'Fatal error'.
CloseBrowser(r) ==
    /\ ing[r].pc = "close"
    /\ LET q == ing[r] IN
       IF q.browser = "open"
       THEN LET c == [q EXCEPT !.browser = "closed", !.closes = @ + 1] IN
            \/ ing' = [ing EXCEPT ![r] = Finish(c)]
            \/ ing' = [ing EXCEPT ![r] = FatalCatch(c)]
       ELSE ing' = [ing EXCEPT ![r] = Finish(q)]
    /\ UNCHANGED <<clientMode, db, storage, files, srch, clients, adm>>

(***************************************************************************)
(* GET /books/search.                                                      *)
(***************************************************************************)
BOOK_SOURCES == {"ebook-hunter", "annas-archive"}
DEFAULT_SOURCE == "ebook-hunter"
\* BOOK_SOURCES is an object literal: besides its own keys it answers to the
\* names every object inherits, with a function.
InheritedKeys == {"constructor"}
\* BOOK_SOURCES[source] is truthy
HasSource(source) == source \in BOOK_SOURCES \cup InheritedKeys
\* What the client may send as source; "" stands for an absent one.
SourceParams == BOOK_SOURCES \cup InheritedKeys \cup {"", "other"}
\* The caps of the two sources taken for each other.
SwappedResolveCap(source) == IF source = "annas-archive" THEN 20 ELSE 15

\* Only the first N extracted listings are resolved.
ResolveCap(source) == IF source = "annas-archive" THEN 15 ELSE 20

\* (page - 1) * limit and startIndex + limit
startIndex(page, limit) ==
    IF page.k = "num" /\ limit.k = "num"
    THEN Num((page.v - 1) * limit.v) ELSE NaN
endIndex(start, limit) ==
    IF start.k = "num" /\ limit.k = "num" THEN Num(start.v + limit.v) ELSE NaN

\* Array.prototype.slice(start, end): NaN counts as 0, a negative index
\* counts from the end, both are clamped to the array.
RelativeIndex(n, len) ==
    IF n.k # "num" THEN 0
    ELSE IF n.v < 0 THEN Max(len + n.v, 0) ELSE Min(n.v, len)
slice(a, start, end) ==
    LET k == RelativeIndex(start, Len(a))
        f == RelativeIndex(end, Len(a)) IN
    IF k < f THEN SubSeq(a, k + 1, f) ELSE <<>>

\* A division that rounds down instead of up.
TotalPagesFloor(n, limit) ==
    IF limit.k = "num" /\ limit.v > 0 THEN Num(n \div limit.v) ELSE NaN

\* Math.ceil(allBooks.length / limit): n / 0 is Infinity (NaN for 0 / 0),
\* anything divided by NaN is NaN.
TotalPages(n, limit) ==
    CASE limit.k # "num"         -> NaN
      [] limit.k = "num" /\ limit.v = 0 -> IF n = 0 THEN NaN ELSE Infinity
      [] limit.k = "num" /\ limit.v > 0 -> Num((n + limit.v - 1) \div limit.v)
      [] limit.k = "num" /\ limit.v < 0 -> Num(0 - (n \div (0 - limit.v)))

\* res.json({ books, total, page, totalPages, source })
SearchResult(books, total, page, totalPages, source) ==
    [status |-> 200, books |-> books, total |-> total, page |-> page,
     totalPages |-> totalPages, source |-> source,
     error |-> "none", message |-> "none"]

\* res.status(status).json({ error, message, books: [], total: 0, page: 1,
\* totalPages: 0 })
SearchResp(status, error, message) ==
    [status |-> status, books |-> <<>>, total |-> 0, page |-> Num(1),
     totalPages |-> Num(0), source |-> "none",
     error |-> error, message |-> message]

\* Control leaves the search function and the try block.
SearchLeave(q) ==
    [q EXCEPT !.pc = "close", !.bookMetadata = <<>>, !.idx = 0, !.faults = 0,
              !.allBooks = <<>>, !.downloadUrl = ""]

\* catch (error) of the handler's inner try: respond 500, then the finally.
SearchCatch(q) ==
    SearchLeave([q EXCEPT !.scrapeFailed = TRUE, !.sent =
        Append(@, SearchResp(500, "Failed to search books", "error.message"))])

\* return res.json(response), then the finally.
SearchRespond(q, allBooks) ==
    LET start == startIndex(q.page, q.limit)
        paginatedBooks == slice(allBooks, start, endIndex(start, q.limit)) IN
    SearchLeave([q EXCEPT !.sent =
        Append(@, SearchResult(paginatedBooks, Len(allBooks), q.page,
                               TotalPages(Len(allBooks), q.limit), q.source))])

\* A failure of the search page: searchAnnasArchive catches it and returns
\* [], searchEbookHunter lets it reach the handler's catch.
SearchPageFails(q) ==
    IF q.source = "annas-archive"
    THEN SearchRespond([q EXCEPT !.scrapeFailed = TRUE], <<>>)
    ELSE SearchCatch(q)

\* The for loop over bookMetadata.slice(0, N): the next listing, or return.
NextListing(q) ==
    IF q.idx < Min(Len(q.bookMetadata), ResolveCap(q.source))
    THEN [q EXCEPT !.idx = @ + 1, !.pc = "newBookPage", !.downloadUrl = "",
                   !.processed = @ + 1]
    ELSE SearchRespond(q, q.allBooks)

\* A loop that gives up at the first listing that throws.
AbortResolution(q) == SearchRespond(q, q.allBooks)

\* catch (error) inside the for loop: log, go on with the next listing.
SkipListing(q) == NextListing([q EXCEPT !.skipped = @ \cup {q.idx}])

\* The entries of the search page (div.index_box, or the /md5/ links): a
\* listing of one of the kinds, or an entry without link or title. A page
\* has up to MaxListings entries of any kind, or more listings than either
\* source resolves.
DomKinds == ListingKinds \cup {"malformed"}
LongPage == [i \in 1..(ResolveCap("ebook-hunter") + 1) |-> "link"]
Doms == UNION {[1..n -> DomKinds] : n \in 0..MaxListings} \cup {LongPage}

\* The forEach of the extraction: an entry without title element, link or
\* title text is passed over, the others are pushed in document order.
Extract(dom) == SelectSeq(dom, LAMBDA e : e # "malformed")

\* A call of the resolve loop may throw; on a long page, MaxFaults of them.
FaultAllowed(q) == Len(q.bookMetadata) <= MaxListings \/ q.faults < MaxFaults
Fault(q) ==
    [q EXCEPT !.faults = IF Len(q.bookMetadata) > MaxListings THEN @ + 1 ELSE @]

\* const query = req.query.query || ''; page and limit by parseInt;
\* const source = ... || DEFAULT_SOURCE; the two validations.
SearchStart(r, query, page, limit, source) ==
    /\ r \in clients
    /\ srch[r].pc = "idle"
    /\ LET src == IF source = "" THEN DEFAULT_SOURCE ELSE source
           q == [srch[r] EXCEPT !.query = query, !.source = src,
                                !.page = parseInt(page, 1),
                                !.limit = parseInt(limit, 10)] IN
       srch' = [srch EXCEPT ![r] =
                  IF query = ""
                  THEN [q EXCEPT !.pc = "done", !.sent =
                          Append(@, SearchResp(400, "Invalid search parameters",
                                               "Query parameter is required"))]
                  ELSE IF ~HasSource(src)
                  THEN [q EXCEPT !.pc = "done", !.sent =
                          Append(@, SearchResp(400, "Invalid source",
                                               "Source must be one of"))]
                  ELSE [q EXCEPT !.pc = "launch"]]
    /\ UNCHANGED <<clientMode, db, storage, files, ing, clients, adm>>

\* browser = await chromium.launch(...)
SearchLaunch(r) ==
    /\ srch[r].pc = "launch"
    /\ \/ srch' = [srch EXCEPT ![r].pc = "setup", ![r].browser = "open",
                               ![r].launches = @ + 1]
       \/ srch' = [srch EXCEPT ![r] = SearchCatch(srch[r])]
    /\ UNCHANGED <<clientMode, db, storage, files, ing, clients, adm>>

\* browser.newContext(...), context.newPage()
SearchSetup(r) ==
    /\ srch[r].pc = "setup"
    /\ \/ srch' = [srch EXCEPT ![r].pc = "goto"]
       \/ srch' = [srch EXCEPT ![r] = SearchCatch(srch[r])]
    /\ UNCHANGED <<clientMode, db, storage, files, ing, clients, adm>>

\* searchPage.goto(searchUrl), searchPage.evaluate(...): bookMetadata. The
\* URL is `${baseUrl}/search...`, and goto throws on one that is not a URL,
\* as when getBaseUrl(source) is an inherited function.
SearchExtract(r) ==
    /\ srch[r].pc = "goto"
    /\ \/ \E d \in Doms :
            /\ srch[r].source \in BOOK_SOURCES
            /\ srch' = [srch EXCEPT ![r] =
                        NextListing([srch[r] EXCEPT
                                        !.dom = d,
                                        !.bookMetadata = Extract(d),
                                        !.extracted = Len(Extract(d))])]
       \/ srch' = [srch EXCEPT ![r] = SearchPageFails(srch[r])]
    /\ UNCHANGED <<clientMode, db, storage, files, ing, clients, adm>>

\* const bookPage = await context.newPage(); a throw skips the listing
NewBookPage(r) ==
    /\ srch[r].pc = "newBookPage"
    /\ \/ srch' = [srch EXCEPT ![r].pc = "resolve", ![r].openPages = @ + 1]
       \/ /\ FaultAllowed(srch[r])
          /\ srch' = [srch EXCEPT ![r] = SkipListing(Fault(srch[r]))]
    /\ UNCHANGED <<clientMode, db, storage, files, ing, clients, adm>>

\* The detail page's download link: downloadLink?.href || ''
Href(listing) == IF listing = "link" THEN "href" ELSE ""

\* The listing in hand did not give a download link.
Unresolved(q) ==
    [q EXCEPT !.unresolved = IF q.downloadUrl = "" THEN @ \cup {q.idx} ELSE @]

\* getBookDownloadUrl / getAnnasArchiveDownloadUrl: goto and evaluate; any
\* throw is caught there and answered with downloadUrl ''
ResolveListing(r) ==
    /\ srch[r].pc = "resolve"
    /\ LET q == [srch[r] EXCEPT !.pc = "closeBookPage"] IN
       \/ srch' = [srch EXCEPT ![r] =
                     Unresolved([q EXCEPT !.downloadUrl =
                                              Href(q.bookMetadata[q.idx])])]
       \/ /\ FaultAllowed(q)
          /\ srch' = [srch EXCEPT ![r] =
                        Unresolved(Fault([q EXCEPT !.downloadUrl = ""]))]
    /\ UNCHANGED <<clientMode, db, storage, files, ing, clients, adm>>

\* A book is pushed whatever its downloadUrl.
PushAlways(allBooks, q) ==
    Append(allBooks, [listing |-> q.idx, downloadUrl |-> q.downloadUrl])

\* if (downloadUrl) allBooks.push({ ...metadata, downloadUrl, ... })
Push(allBooks, q) ==
    IF q.downloadUrl # ""
    THEN Append(allBooks, [listing |-> q.idx, downloadUrl |-> q.downloadUrl])
    ELSE allBooks

\* A loop that goes on to the next listing with the page left open.
PageLeftOpen(n) == n

\* await bookPage.close() went through
PageClosed(n) == n - 1

\* await bookPage.close(); if (downloadUrl) allBooks.push(...); a throw of
\* close skips the listing, with the page closed or still open
CloseBookPage(r) ==
    /\ srch[r].pc = "closeBookPage"
    /\ LET q == srch[r] IN
       \/ srch' = [srch EXCEPT ![r] =
                     NextListing([q EXCEPT !.openPages = PageClosed(@),
                                    !.allBooks = Push(@, q),
                                    !.gathered = Push(@, q)])]
       \/ /\ FaultAllowed(q)
          /\ \E n \in {q.openPages, q.openPages - 1} :
               srch' = [srch EXCEPT ![r] =
                          SkipListing(Fault([q EXCEPT !.openPages = n,
                                                      !.closeFailed = TRUE]))]
    /\ UNCHANGED <<clientMode, db, storage, files, ing, clients, adm>>

\* finally: if (browser) await browser.close(); a throw reaches the
\* outermost catch, which answers 500
SearchClose(r) ==
    /\ srch[r].pc = "close"
    /\ LET q == srch[r] IN
       IF q.browser = "open"
       THEN LET c == [q EXCEPT !.pc = "done", !.browser = "closed",
                               !.closes = @ + 1, !.openPages = 0] IN
            \/ srch' = [srch EXCEPT ![r] = c]
            \/ srch' = [srch EXCEPT ![r] =
                          [c EXCEPT !.sent =
                             Append(@, SearchResp(500, "Failed to search books",
                                                  "error.message"))]]
       ELSE srch' = [srch EXCEPT ![r].pc = "done"]
    /\ UNCHANGED <<clientMode, db, storage, files, ing, clients, adm>>

Next ==
    \/ \E r \in Ingests, u \in Urls \cup {BadUrl} : IngestStart(r, u)
    \/ \E r \in Ingests : DedupQuery(r)
    \/ \E r \in Ingests : Mkdir(r)
    \/ \E r \in Ingests : Launch(r)
    \/ \E r \in Ingests : Setup(r)
    \/ \E r \in Ingests : Goto(r)
    \/ \E r \in Ingests : Poll(r)
    \/ \E r \in Ingests : Click(r)
    \/ \E r \in Ingests : AwaitDownload(r)
    \/ \E r \in Ingests : Save(r)
    \/ \E r \in Ingests : Stat(r)
    \/ \E r \in Ingests : Upload(r)
    \/ \E r \in Ingests : Insert(r)
    \/ \E r \in Ingests : Compensate(r)
    \/ \E r \in Ingests : Reload(r)
    \/ \E r \in Ingests : NewPage(r)
    \/ \E r \in Ingests : CleanupTemp(r)
    \/ \E r \in Ingests : CloseBrowser(r)
    \/ \E r \in Searches, query \in {"", "q"}, page, limit \in QueryParams,
          source \in SourceParams :
            SearchStart(r, query, page, limit, source)
    \/ \E r \in Searches : SearchLaunch(r)
    \/ \E r \in Searches : SearchSetup(r)
    \/ \E r \in Searches : SearchExtract(r)
    \/ \E r \in Searches : NewBookPage(r)
    \/ \E r \in Searches : ResolveListing(r)
    \/ \E r \in Searches : CloseBookPage(r)
    \/ \E r \in Searches : SearchClose(r)

Spec == Init /\ [][Next]_vars

\* The runs of one ingest request, against a table that holds a row or
\* none. The event loop resumes a handler whenever the call it awaits has
\* settled, and every call returns or times out: a request that can take a
\* step eventually takes one. Nothing obliges a client to send a request.
\* (Requests meet only in the table, the bucket and the download directory,
\* and no loop of the handler tests any of them.)
IngestStep(r) ==
    \/ DedupQuery(r)
    \/ Mkdir(r)
    \/ Launch(r)
    \/ Setup(r)
    \/ Goto(r)
    \/ Poll(r)
    \/ Click(r)
    \/ AwaitDownload(r)
    \/ Save(r)
    \/ Stat(r)
    \/ Upload(r)
    \/ Insert(r)
    \/ Compensate(r)
    \/ Reload(r)
    \/ NewPage(r)
    \/ CleanupTemp(r)
    \/ CloseBrowser(r)
IngestInit ==
    /\ clientMode \in {"rest", "pg"}
    /\ db \in {{}, {[id |-> <<"seed", 0>>, download_url |-> "u1",
                     s3_bucket_id |-> <<"seed", 0>>]}}
    /\ storage = {b.s3_bucket_id : b \in db}
    /\ files = <<>>
    /\ ing = [r \in Ingests |-> IngInit]
    /\ srch = [r \in Searches |-> SrchInit]
    /\ adm = [a \in Admins |-> AdmInit]
    /\ clients = {"i1"}
IngestNext ==
    \/ \E r \in Ingests, u \in Urls \cup {BadUrl} : IngestStart(r, u)
    \/ \E r \in Ingests : IngestStep(r)
IngestSpec == IngestInit /\ [][IngestNext]_vars
FairSpec ==
    IngestInit /\ [][IngestNext]_vars /\ \A r \in Ingests : WF_vars(IngestStep(r))

\* The runs of search requests alone.
SearchInit == Init /\ clients = Searches
SearchNext ==
    \/ \E r \in Searches, query \in {"", "q"}, page, limit \in QueryParams,
          source \in SourceParams :
            SearchStart(r, query, page, limit, source)
    \/ \E r \in Searches : SearchLaunch(r)
    \/ \E r \in Searches : SearchSetup(r)
    \/ \E r \in Searches : SearchExtract(r)
    \/ \E r \in Searches : NewBookPage(r)
    \/ \E r \in Searches : ResolveListing(r)
    \/ \E r \in Searches : CloseBookPage(r)
    \/ \E r \in Searches : SearchClose(r)
SearchSpec == SearchInit /\ [][SearchNext]_vars

(***************************************************************************)
(* DELETE /admin/database/cleanup/:bookId: one action per await.           *)
(***************************************************************************)
\* The ids a cleanup request may name: the seeded row, the row an ingest
\* request inserts, and an id no row has.
BookIds == {<<"seed", 0>>, <<"i1", 0>>, <<"none", 0>>}
Confirms == {"true", "none"}

AdmResp(status, error) == [status |-> status, error |-> error]

AdmDone(c, resp) ==
    [c EXCEPT !.pc = "done", !.bookId = NULL, !.book = NULL,
              !.sent = Append(@, resp)]

\* if (confirm !== 'true') return 400
CleanupStart(a, bookId, confirm) ==
    /\ adm[a].pc = "idle"
    /\ adm' = [adm EXCEPT ![a] =
                IF confirm # "true"
                THEN AdmDone(@, AdmResp(400, "Confirmation required"))
                ELSE [@ EXCEPT !.pc = "fetch", !.bookId = bookId]]
    /\ UNCHANGED <<clientMode, db, storage, files, ing, srch, clients>>

\* .select('*').eq('id', bookId).single(); fetchError answers 404. The
\* direct PostgreSQL client answers data null without an error when no row
\* matches, and reading book.id then throws into the handler's catch.
CleanupFetch(a) ==
    /\ adm[a].pc = "fetch"
    /\ LET c == adm[a]
           rows == {b \in db : b.id = c.bookId} IN
       \/ \E b \in rows :
             adm' = [adm EXCEPT ![a] = [c EXCEPT !.pc = "delete", !.book = b]]
       \/ /\ rows = {} /\ clientMode = "rest"
          /\ adm' = [adm EXCEPT ![a] = AdmDone(c, AdmResp(404, "Book not found"))]
       \/ /\ rows = {} /\ clientMode = "pg"
          /\ adm' = [adm EXCEPT ![a] =
                        AdmDone(c, AdmResp(500, "Failed to delete book"))]
       \/ \* the query itself fails
          adm' = [adm EXCEPT ![a] = AdmDone(c, AdmResp(404, "Book not found"))]
    /\ UNCHANGED <<clientMode, db, storage, files, ing, srch, clients>>

\* A delete error that does not stop the handler.
DeleteErrorIgnored(c) == [c EXCEPT !.pc = "remove"]

\* if (deleteError) return 500
DeleteError(c) == AdmDone(c, AdmResp(500, "Failed to delete book"))

\* .delete().eq('id', bookId)
CleanupDelete(a) ==
    /\ adm[a].pc = "delete"
    /\ LET c == adm[a] IN
       \/ /\ db' = {b \in db : b.id # c.bookId}
          /\ adm' = [adm EXCEPT ![a] =
                        IF c.book.s3_bucket_id # NULL
                        THEN [c EXCEPT !.pc = "remove"]
                        ELSE AdmDone(c, AdmResp(200, "none"))]
       \/ \* deleteError, or a client object that has no delete()
          /\ db' = db
          /\ adm' = [adm EXCEPT ![a] = DeleteError(c)]
    /\ UNCHANGED <<clientMode, storage, files, ing, srch, clients>>

\* if (book.s3_bucket_id) storage.remove([book.s3_bucket_id]), its error
\* or throw only logged; then the 200 answer.
CleanupRemove(a) ==
    /\ adm[a].pc = "remove"
    /\ LET c == adm[a] IN
       /\ \/ clientMode = "rest" /\ storage' = storage \ {c.book.s3_bucket_id}
          \/ storage' = storage
       /\ adm' = [adm EXCEPT ![a] = AdmDone(c, AdmResp(200, "none"))]
    /\ UNCHANGED <<clientMode, db, files, ing, srch, clients>>

CleanupStep(a) ==
    \/ CleanupFetch(a)
    \/ CleanupDelete(a)
    \/ CleanupRemove(a)

\* One ingest request and the admin cleanup requests, interleaved.
CleanupInit == IngestInit
CleanupNext ==
    \/ \E u \in Urls \cup {BadUrl} : IngestStart("i1", u)
    \/ IngestStep("i1")
    \/ \E a \in Admins, b \in BookIds, k \in Confirms : CleanupStart(a, b, k)
    \/ \E a \in Admins : CleanupStep(a)
CleanupSpec == CleanupInit /\ [][CleanupNext]_vars

(***************************************************************************)
(* Properties.                                                             *)
(***************************************************************************)
\* The response the client of request r receives: the first one sent.
Answered(r)  == ing[r].sent # <<>>
Answer(r)    == ing[r].sent[1]
Succeeded(r) == Answered(r) /\ Answer(r).success
Returned(r)  == ing[r].pc = "done"

\* Request b arrived after request a had returned success for the same URL.
Sequential(a, b) ==
    /\ a # b
    /\ a \in ing[b].doneBefore
    /\ ing[a].url = ing[b].url
    /\ Succeeded(a)

\* Requests a and b for URL u were in flight at the same time.
Overlapped(a, b, u) ==
    /\ a # b
    /\ ing[a].url = u /\ ing[b].url = u
    /\ a \notin ing[b].doneBefore
    /\ b \notin ing[a].doneBefore

\* Request r has created no directory, launched no browser (so loaded no page
\* and downloaded nothing), uploaded nothing and inserted nothing.
NoNewWork(r) ==
    /\ ing[r].mkdirs = 0
    /\ ing[r].launches = 0
    /\ ing[r].uploadLog = {}
    /\ ing[r].insertLog = {}

C2_AtMostOnePerUrl ==
    \A u \in Urls : Cardinality(RowsFor(u)) <= 1

\* C2 (amended): the store holds two records with the same URL only if two
\* ingest requests for that URL were in flight at the same time; requests
\* for a URL that follow one another leave at most one record.
C2_AtMostOnePerUrlUnlessOverlap ==
    \A u \in Urls :
        \/ Cardinality(RowsFor(u)) <= 1
        \/ \E a, b \in Ingests : Overlapped(a, b, u)

\* Two requests for one URL ran one after the other, the first inserted, and
\* the URL has one record.
C2_Witness ==
    \E a, b \in Ingests :
        /\ Sequential(a, b) /\ Returned(b)
        /\ ing[a].insertLog # {}
        /\ ~Overlapped(a, b, ing[a].url)
        /\ Cardinality(RowsFor(ing[a].url)) = 1

\* C3: a request whose dedup check found a record has returned with exactly
\* one response, success with that record's id and storage URL, and has
\* created no directory, launched no browser, uploaded and inserted nothing.
C3_DedupHitShortCircuits ==
    \A r \in Ingests :
        ing[r].existingBook # NULL =>
            /\ Returned(r)
            /\ ing[r].existingBook.download_url = ing[r].url
            /\ ing[r].sent = <<Resp(200, TRUE, ing[r].existingBook.id,
                                    ing[r].existingBook.s3_bucket_id, "none")>>
            /\ ing[r].browser = "none"
            /\ NoNewWork(r)

\* A dedup check found the record another request had inserted.
C3_Witness ==
    \E r, o \in Ingests :
        /\ r # o
        /\ ing[r].existingBook # NULL
        /\ \E i \in ing[o].insertLog : ing[r].existingBook.id = i.id

\* C4: no storage upload is ever made of a zero-byte file, and so no insert
\* and no success response follows one.
C4_NoEmptyFileUploaded ==
    \A r \in Ingests :
        \A e \in ing[r].uploadLog : e.size > 0

\* C5: every request, search or ingest, closes the browser it launched
\* exactly once before it returns, and closes none if it launched none.
C5_BrowserClosedOnce ==
    /\ \A r \in Ingests :
          /\ ing[r].closes <= ing[r].launches /\ ing[r].launches <= 1
          /\ Returned(r) => ing[r].closes = ing[r].launches
          /\ ing[r].browser = "none" <=> ing[r].launches = 0
    /\ \A r \in Searches :
          /\ srch[r].closes <= srch[r].launches /\ srch[r].launches <= 1
          /\ srch[r].pc = "done" => srch[r].closes = srch[r].launches
          /\ srch[r].browser = "none" <=> srch[r].launches = 0

\* An ingest request that launched a browser and failed has returned with
\* the browser closed.
C5_Witness ==
    \E r \in Ingests :
        /\ Returned(r) /\ ~Succeeded(r)
        /\ ing[r].launches = 1 /\ ing[r].closes = 1

\* C6: a request that answered success after a download made exactly one
\* successful upload and one successful insert, both in the same attempt
\* and for the non-empty file its own download saved in that attempt.
C6_VerifiedOnce ==
    \A r \in Ingests :
        ing[r].insertLog # {} =>
            /\ Cardinality(ing[r].uploadLog) = 1
            /\ Cardinality(ing[r].insertLog) = 1
            /\ \A e \in ing[r].uploadLog, i \in ing[r].insertLog :
                  /\ e.attempt = i.attempt
                  /\ e.by = r
                  /\ e.size > 0

\* The awaits of the handler before its finally block.
Stages ==
    {"idle", "dedup", "mkdir", "launch", "setup", "goto", "poll", "click",
     "awaitDownload", "save", "stat", "upload", "insert", "compensate",
     "reload", "newPage"}

\* The responses request r sends in the step.
NewResponses(r) == SubSeq(ing'[r].sent, Len(ing[r].sent) + 1, Len(ing'[r].sent))

C7Step(r) ==
    LET q == ing[r]
        n == ing'[r]
        new == NewResponses(r) IN
    /\ Len(new) <= 1
    /\ n.pc \in Stages => n.sent = <<>>
    /\ q.pc \in Stages /\ n.pc \notin Stages =>
          /\ Len(new) = 1
          /\ ~new[1].success => new[1].status \in {400, 500} /\ new[1].error # "none"
    /\ \A k \in 1..Len(new) :
          new[k].success =>
             /\ q.sent = <<>>
             /\ \/ /\ q.pc = "dedup"
                   /\ \E b \in RowsFor(q.url) :
                         new[k].id = b.id /\ new[k].s3_bucket_url = b.s3_bucket_id
                \/ /\ q.pc = "insert"
                   /\ q.statSize > 0
                   /\ \E e \in q.uploadLog :
                         e.path = q.uploadPath /\ e.attempt = q.retryCount
                   /\ \E b \in db' \ db :
                         /\ b.id = new[k].id /\ b.download_url = q.url
                         /\ b.s3_bucket_id = q.uploadPath

\* C7: a response carries success=true only in the step in which the dedup
\* check finds a record, or in the step in which the insert succeeds after
\* the file was verified non-empty and uploaded; every other way out of the
\* handler's stages sends one response that carries an error, and nothing is
\* answered while attempts are still being made.
C7_SuccessOnlyWhenPersisted ==
    [][\A r \in Ingests : C7Step(r)]_vars

\* One request answered success after its insert, another answered an error
\* after its upload had succeeded.
C7_Witness ==
    \E r, o \in Ingests :
        /\ Succeeded(r) /\ ing[r].insertLog # {}
        /\ Answered(o) /\ ~Succeeded(o) /\ ing[o].uploadLog # {}

\* C8: a retry (the page reload that precedes a new attempt) is started only
\* while fewer than maxRetries attempts were made and the deadline, counted
\* from the first page load, is not exceeded.
C8_RetriesBounded ==
    \A r \in Ingests :
        /\ ing[r].retryCount <= maxRetries
        /\ ing[r].pc \in {"reload", "newPage"} =>
              /\ ing[r].retryCount < maxRetries
              /\ ~DeadlineExceeded(ing[r])

\* C9: a download wait that ends without a download event, in an attempt
\* below the ceiling and within the deadline, leads to a page reload and a
\* new attempt, whichever timer reports it.
C9_TimeoutAlwaysRetried ==
    [][\A r \in Ingests :
          /\ ing[r].pc = "awaitDownload"
          /\ ing'[r].pc \notin {"awaitDownload", "save"}
          /\ ing[r].retryCount < maxRetries
          /\ ing[r].elapsed + downloadTimeout <= maxWaitTime
          => ing'[r].pc = "reload"]_vars

\* C10: when the saved file is found to hold zero bytes in an attempt below
\* the ceiling and within the deadline, and the file has been deleted, the
\* request goes on to a page reload and a new attempt.
C10_EmptyFileRetried ==
    [][\A r \in Ingests :
          /\ ing[r].pc = "stat"
          /\ ing'[r] # ing[r]
          /\ ing[r].tempFilePath \in DOMAIN files
          /\ files[ing[r].tempFilePath].size = 0
          /\ ing[r].tempFilePath \notin DOMAIN files'
          /\ ing[r].retryCount < maxRetries
          /\ ~DeadlineExceeded(ing[r])
          => ing'[r].pc = "reload"]_vars

\* C11: a request whose dedup query failed has returned with one response,
\* the 500 'Fatal error', and has created no directory, launched no browser,
\* uploaded nothing and inserted nothing.
C11_DedupFailureIsFatal ==
    \A r \in Ingests :
        ing[r].dedupError =>
            /\ Returned(r)
            /\ ing[r].sent = <<Resp(500, FALSE, NULL, NULL, "Fatal error")>>
            /\ ing[r].browser = "none"
            /\ NoNewWork(r)

\* A dedup query failed although the URL has a record in the store.
C11_Witness ==
    \E r \in Ingests :
        /\ ing[r].dedupError
        /\ RowsFor(ing[r].url) # {}

C12Step(r) ==
    LET q == ing[r]
        n == ing'[r] IN
    /\ \* the insert fails: nothing is answered before the removal is tried
       q.pc = "insert" /\ n # q /\ db' = db =>
          /\ n.pc = "compensate"
          /\ n.sent = q.sent
          /\ n.uploadPath = q.uploadPath /\ q.uploadPath \in storage
    /\ \* the removal returns or throws: the insert error goes its way
       q.pc = "compensate" /\ n # q =>
          /\ storage' \in {storage, storage \ {q.uploadPath}}
          /\ db' = db
          /\ \A b \in db' : b.s3_bucket_id # q.uploadPath
          /\ [n EXCEPT !.unlinkFailed = q.unlinkFailed] = InnerCatch(q, q.error)
          /\ Len(n.sent) = Len(q.sent) + 1
          /\ ~n.sent[Len(n.sent)].success
          /\ n.sent[Len(n.sent)].status = 500
          /\ n.insertLog = {}

\* C12: when the insert fails after a successful upload nothing is answered
\* until the removal of the uploaded object has been tried; then the request
\* answers failure, the database holds no record for the uploaded object,
\* and the request goes on exactly as the insert error alone makes it,
\* whether the removal succeeded or failed.
C12_InsertFailureCompensated ==
    [][\A r \in Ingests : C12Step(r)]_vars

\* A request has answered failure after its insert failed, and the removal
\* failed too: the uploaded object is still in the bucket.
C12_Witness ==
    \E r \in Ingests :
        /\ Answered(r) /\ ~Succeeded(r)
        /\ ing[r].insertLog = {}
        /\ \E e \in ing[r].uploadLog : e.path \in storage

C13Step(r) ==
    LET q == ing[r]
        n == ing'[r] IN
    /\ \* the upload fails
       q.pc = "upload" /\ n # q /\ n.pc # "insert" =>
          /\ n.pc = "cleanup"
          /\ n.sent = Append(q.sent, n.sent[Len(n.sent)])
          /\ ~n.sent[Len(n.sent)].success /\ n.sent[Len(n.sent)].status = 500
          /\ n.uploadLog = {} /\ n.insertLog = {}
          /\ storage' = storage /\ db' = db
    /\ \* past the handler's catch nothing is attempted again
       q.pc \notin Stages =>
          /\ n.pc \notin Stages
          /\ n.uploadLog = q.uploadLog /\ n.insertLog = q.insertLog
          /\ n.launches = q.launches

\* C13: a failed upload is answered with failure in the same step, with no
\* insert made, and the request then only cleans up: no reload, no further
\* attempt, no second upload.
C13_UploadFailureAborts ==
    [][\A r \in Ingests : C13Step(r)]_vars

\* A request answered failure with its non-empty download still on disk and
\* nothing uploaded, while no other request was running: its upload failed.
C13_Witness ==
    \E r \in Ingests :
        /\ ing[r].pc = "cleanup"
        /\ Answered(r) /\ ~Succeeded(r)
        /\ ing[r].uploadLog = {}
        /\ ing[r].tempFilePath \in DOMAIN files
        /\ files[ing[r].tempFilePath] = [size |-> 1, by |-> r]
        /\ \A o \in Ingests \ {r} : ing[o].pc = "idle"
        /\ clientMode = "rest"

\* C14: when a request has returned and none of its unlink calls threw, the
\* download directory holds no file that one of its attempts saved.
C14_NoScratchFileLeft ==
    \A r \in Ingests :
        Returned(r) /\ ~ing[r].unlinkFailed =>
            \A p \in DOMAIN files : files[p].by # r

\* A request that uploaded its download has returned with success, and the
\* download directory is empty.
C14_Witness ==
    \E r \in Ingests :
        /\ Returned(r) /\ Succeeded(r)
        /\ ing[r].uploadLog # {}
        /\ ~ing[r].unlinkFailed
        /\ DOMAIN files = {}

(***************************************************************************)
(* Properties of GET /books/search.                                        *)
(***************************************************************************)
SearchAnswered(r) == srch[r].sent # <<>>
SearchAnswer(r)   == srch[r].sent[1]
\* The request passed both validations.
ValidSearch(r) == srch[r].query # "" /\ srch[r].source \in BOOK_SOURCES
\* The search function returned a list and the handler answered with it.
Resulted(r) == SearchAnswered(r) /\ SearchAnswer(r).status = 200

\* The least integer that is at least n / d, for n >= 0 and d # 0.
Ceiling(n, d) ==
    CHOOSE k \in (0 - n)..n :
        IF d > 0 THEN k * d >= n /\ (k - 1) * d < n
                 ELSE k * d <= n /\ (k - 1) * d > n
\* ceil(n / limit) in the arithmetic of the handler, where a division by
\* zero gives Infinity (NaN for 0 / 0) and NaN gives NaN.
CeilOfQuotient(n, limit) ==
    IF limit.k = "num" /\ limit.v # 0 THEN Num(Ceiling(n, limit.v))
    ELSE IF limit.k = "num" /\ n > 0 THEN Infinity
    ELSE NaN

\* C15: every search with a non-empty query and a known source that returns
\* a result reports as total the length of the whole list of books it
\* gathered, before pagination, and as totalPages the ceiling of total
\* divided by the limit of the request.
C15_TotalAndTotalPages ==
    \A r \in Searches :
        ValidSearch(r) /\ Resulted(r) =>
            /\ SearchAnswer(r).total = Len(srch[r].gathered)
            /\ SearchAnswer(r).totalPages =
                   CeilOfQuotient(SearchAnswer(r).total, srch[r].limit)

\* A result of two books returned one per page: total 2, totalPages 2.
C15_Witness ==
    \E r \in Searches :
        /\ ValidSearch(r) /\ Resulted(r)
        /\ srch[r].limit = Num(1)
        /\ Len(srch[r].gathered) = 2
        /\ Len(SearchAnswer(r).books) = 1
        /\ SearchAnswer(r).total = 2
        /\ SearchAnswer(r).totalPages = Num(2)

\* C16: no book of a search result has an empty downloadUrl: a listing whose
\* detail page gave no download link, or whose resolution failed, is not in
\* the books returned and is not counted in total.
C16_NoBookWithoutDownloadUrl ==
    \A r \in Searches :
        Resulted(r) =>
            /\ \A i \in DOMAIN SearchAnswer(r).books :
                  /\ SearchAnswer(r).books[i].downloadUrl # ""
                  /\ SearchAnswer(r).books[i].listing \notin srch[r].unresolved
            /\ SearchAnswer(r).total
                  <= srch[r].extracted - Cardinality(srch[r].unresolved)

\* Of two listings one gave no link and the other one is returned.
C16_Witness ==
    \E r \in Searches :
        /\ Resulted(r)
        /\ srch[r].extracted = 2
        /\ Cardinality(srch[r].unresolved) = 1
        /\ Len(SearchAnswer(r).books) = 1
        /\ SearchAnswer(r).total = 1

\* C17: a search request with an empty query, or with a source that is not
\* one of the known sources, launches no browser and is answered 400 with
\* empty books and total 0.
C17_InvalidSearchRejected ==
    \A r \in Searches :
        srch[r].pc # "idle" /\ ~ValidSearch(r) =>
            /\ srch[r].launches = 0
            /\ SearchAnswered(r) =>
                  /\ SearchAnswer(r).status = 400
                  /\ SearchAnswer(r).books = <<>>
                  /\ SearchAnswer(r).total = 0

\* C18: a search with a non-empty query and a known source whose scraping
\* failed (browser launch, search page navigation, listing extraction) is
\* answered with an empty result (books empty, total 0, totalPages 0) and
\* an explanatory message, whichever the source.
C18_ScrapingFailureDegrades ==
    \A r \in Searches :
        ValidSearch(r) /\ srch[r].scrapeFailed =>
            /\ SearchAnswered(r)
            /\ SearchAnswer(r).books = <<>>
            /\ SearchAnswer(r).total = 0
            /\ SearchAnswer(r).totalPages = Num(0)
            /\ SearchAnswer(r).message # "none"

\* C19: no two download attempts of requests running at the same time use
\* the same scratch file path.
C19_ScratchPathsDistinct ==
    \A r, o \in Ingests :
        r # o /\ ing[r].tempFilePath # NULL =>
            ing[r].tempFilePath # ing[o].tempFilePath

\* The request is past the dedup check and has not returned.
InPipeline(r) == ing[r].pc \notin {"idle", "dedup", "done"}

\* C20: every ingest request that passed the dedup check eventually
\* returns, having sent a response: the polling loop, the wait for the
\* download event and the retry loop do not go on forever.
C20_PipelineTerminates ==
    \A r \in Ingests : InPipeline(r) ~> (Returned(r) /\ Answered(r))

\* A request that used up its attempts and returned with the failure.
C20_Witness ==
    \E r \in Ingests :
        /\ Returned(r)
        /\ ing[r].launches = 1
        /\ ing[r].sent = <<Failed("MaxRetries")>>

\* The pipeline is over for the request: only the finally block remains.
Leaving(q) == q.pc \in {"cleanup", "close", "done"}

C21Step(r) ==
    /\ \/ ing[r].pc = "launch" /\ ing'[r].pc \notin {"launch", "setup"}
       \/ ing[r].pc = "goto" /\ ing'[r].pc \notin {"goto", "poll"}
       => /\ ing'[r].pc = "cleanup"
          /\ ing'[r].retryCount = 0
          /\ \E e \in NavigationErrors \cup {"Launch"} :
                ing'[r].sent = Append(ing[r].sent, Failed(e))
    /\ Leaving(ing[r]) => Leaving(ing'[r])

\* C21: a failure of the browser launch or of the first navigation to the
\* download URL answers 'Download failed' at once and leaves the pipeline
\* for good: no poll, click, reload or further attempt follows.
C21_TerminalBrowserErrors == [][\A r \in Ingests : C21Step(r)]_vars

\* A request whose first navigation was refused returned with that failure
\* after launching its browser.
C21_Witness ==
    \E r \in Ingests :
        /\ Returned(r)
        /\ ing[r].launches = 1
        /\ ing[r].sent = <<Failed("Navigation")>>
        /\ ing[r].uploadLog = {}

\* C22: in every attempt the listeners for the page's download event are
\* armed before the trigger control is clicked: no click is issued without
\* them, and every wait for the download has them.
C22_ListenerArmedBeforeClick ==
    \A r \in Ingests :
        /\ ~ing[r].clickedUnarmed
        /\ ing[r].pc = "awaitDownload" => ing[r].armed

\* The second attempt of a request has clicked and waits for the download.
C22_Witness ==
    \E r \in Ingests :
        /\ ing[r].pc = "awaitDownload"
        /\ ing[r].retryCount = 2
        /\ ing[r].armed

\* C23: the trigger control is clicked only after a poll of the same
\* attempt found it visible, enabled and inside the 'to-lock' container: no
\* click lands on a control that no poll found ready.
C23_ClickOnlyWhenReady ==
    \A r \in Ingests : ing[r].clicked # "unchecked"

Capped(r) == Min(srch[r].extracted, ResolveCap(srch[r].source))
\* The listings of request r that resolved: taken up, with a download link,
\* and with no call of their iteration throwing.
ResolvedListings(r) ==
    {i \in 1..srch[r].processed : i \notin srch[r].unresolved \cup srch[r].skipped}
\* The search function of request r ran its resolve loop to the end.
LoopDone(r) == Resulted(r) /\ ~srch[r].scrapeFailed

\* C25: an entry of the search page without link or title, and a failure
\* while resolving one listing, skip only that entry: all other entries are
\* extracted, every extracted listing within the cap is taken up, and every
\* listing that resolved is among the books gathered.
C25_FailureSkipsOnlyOneListing ==
    \A r \in Searches :
        LoopDone(r) =>
            /\ srch[r].extracted =
                  Cardinality({i \in DOMAIN srch[r].dom :
                                  srch[r].dom[i] # "malformed"})
            /\ srch[r].processed = Capped(r)
            /\ {srch[r].gathered[i].listing : i \in DOMAIN srch[r].gathered}
                  = ResolvedListings(r)

\* A page of two listings: an iteration of the first one threw, the second
\* one resolved and is the only book gathered.
C25_Witness ==
    \E r \in Searches :
        /\ LoopDone(r)
        /\ Len(srch[r].dom) = 2
        /\ srch[r].dom[1] # "malformed"
        /\ srch[r].skipped = {1}
        /\ Len(srch[r].gathered) = 1
        /\ srch[r].gathered[1].listing = 2

\* The number of books on page p of n books, limit to a page.
OnPage(n, p, limit) == Max(0, Min(limit, n - (p - 1) * limit))

\* C26: the books gathered by a search are the listings among the first N
\* extracted (N = 20 for ebook-hunter, 15 for annas-archive) that resolved
\* to a download URL, in document order; for page >= 1 and limit >= 1 the
\* books returned are the elements at positions (page-1)*limit up to
\* page*limit - 1 of that list in the same order, at most limit of them, and
\* total is at most N.
C26_CappedAndPaginated ==
    \A r \in Searches :
        LoopDone(r) =>
            LET g == srch[r].gathered
                a == SearchAnswer(r)
                N == IF srch[r].source = "annas-archive" THEN 15 ELSE 20
                p == srch[r].page
                l == srch[r].limit
            IN  /\ \A i \in DOMAIN g :
                      g[i].listing \in 1..N /\ g[i].downloadUrl # ""
                /\ \A i, j \in DOMAIN g :
                      i < j => g[i].listing < g[j].listing
                /\ {g[i].listing : i \in DOMAIN g}
                      = ResolvedListings(r) \cap 1..N
                /\ a.total = Len(g) /\ a.total <= N
                /\ p.k = "num" /\ p.v >= 1 /\ l.k = "num" /\ l.v >= 1 =>
                      /\ Len(a.books) = OnPage(Len(g), p.v, l.v)
                      /\ Len(a.books) <= l.v
                      /\ \A k \in DOMAIN a.books :
                            a.books[k] = g[(p.v - 1) * l.v + k]

\* Of 21 listings ebook-hunter resolved 20, and the client asked for the
\* second page of ten: the books are listings 11 to 20.
C26_Witness ==
    \E r \in Searches :
        /\ LoopDone(r)
        /\ srch[r].extracted = 21
        /\ SearchAnswer(r).total = 20
        /\ srch[r].page = Num(2) /\ srch[r].limit = Num(10)
        /\ Len(SearchAnswer(r).books) = 10
        /\ SearchAnswer(r).books[1].listing = 11
        /\ SearchAnswer(r).books[10].listing = 20

\* C27: the popup handler of an ingest request never closes the page the
\* pipeline is driving, the replacement page of a retry included.
C27_HandlerSparesDrivenPage ==
    \A r \in Ingests : ~ing[r].ownPageClosed

\* C28: every attempt after the first polls, clicks and waits on a page
\* that is open, also after a retry that fell back to opening a new page.
C28_RetryUsesOpenPage ==
    \A r \in Ingests :
        ing[r].retryCount >= 2 /\ ing[r].pc \in {"poll", "click", "awaitDownload"}
            => ing[r].pageOpen

\* C29: every search request and every ingest request answers exactly
\* once: never twice, and once the handler has returned, not zero times.
C29_ExactlyOneResponse ==
    /\ \A r \in Ingests :
          /\ Len(ing[r].sent) <= 1
          /\ Returned(r) => Len(ing[r].sent) = 1
    /\ \A r \in Searches :
          /\ Len(srch[r].sent) <= 1
          /\ srch[r].pc = "done" => Len(srch[r].sent) = 1

RecordsBacked == \A b \in db : b.s3_bucket_id \in storage

C30Step ==
    /\ \* a record is inserted only for an object that is in the bucket
       \A b \in db' \ db : b.s3_bucket_id \in storage
    /\ \* an object is removed only when no row names it any more
       \A o \in storage \ storage' : \A b \in db' : b.s3_bucket_id # o
    /\ \* the compensation runs only after a failed insert
       \A r \in Ingests :
          ing[r].pc = "compensate" => ing[r].insertLog = {}
    /\ \* a cleanup refused for want of confirm=true deletes nothing
       \A a \in Admins :
          adm[a].pc = "idle" /\ adm'[a].pc = "done" =>
             db' = db /\ storage' = storage

\* C30: under every interleaving of an ingest request and admin cleanup
\* requests, the storage path of every record in the database names an
\* object that is in the bucket; a record is inserted only after its
\* upload, an object is removed only when no row names it, and a cleanup
\* without confirm=true deletes nothing.
C30_RecordsHaveObjects ==
    []RecordsBacked /\ [][C30Step]_vars

\* An ingest request has inserted its record while a cleanup deleted the
\* seeded row and removed its object, and a second cleanup of the same
\* row went through as well.
C30_Witness ==
    /\ \E b \in db : b.id = <<"i1", 0>>
    /\ <<"seed", 0>> \notin storage
    /\ \A a \in Admins :
          adm[a].sent # <<>> /\ adm[a].sent[1].status = 200
====
